---- MODULE Spec2Model ----
(***************************************************************************)
(* A model of flight_log.py: FlightLog.open (vendor detection, header      *)
(* binding, required-column validation, start-time resolution) and         *)
(* FlightLog.read (column readers, truncated-row handling, early stop on   *)
(* a failing reader).                                                      *)
(*                                                                         *)
(* Text is kept as TLA+ strings in the state; Chars spells each string of  *)
(* the model's alphabet as its characters, and the parsers (the \d+ scan   *)
(* of parse_int_tuple, int(), float(), str.strip, str.startswith) work on  *)
(* those characters as the Python code does.                               *)
(*                                                                         *)
(* A Python value is a record [kind, n, m, s]:                             *)
(*   None      kind = "None"                                               *)
(*   int       kind = "int",      n = the integer                          *)
(*   float     kind = "float",    n = digits without the point,            *)
(*                                m = number of fractional digits          *)
(*   str       kind = "str",      s = the string                           *)
(*   datetime  kind = "datetime", n = proleptic Gregorian day ordinal,     *)
(*                                m = second of the day                    *)
(***************************************************************************)
EXTENDS Integers, Sequences, FiniteSets, TLC

(***************************************************************************)
(* Bounds of the model.                                                    *)
(***************************************************************************)
\* most data rows (lines after the three header lines) in a file
MaxRows == 3
\* most names in the list passed to one read() call
MaxReq == 3
\* most data rows in a file that is read more than once
MaxRereadRows == 2

(***************************************************************************)
(* Program constants (flight_log.py:61-64, 172, 275, 562, 662).            *)
(***************************************************************************)
VENDOR_AVIDYNE == "avidyne"
VENDOR_GARMIN == "garmin"
COLUMN_NAME_TIMESTAMP == "timestamp"
COLUMN_NAME_ELAPSED == "elapsed"
AVIDYNE_REQUIRED_COLUMNS == <<"TIME", "LAT", "E1", "MAP", "FF">>
GARMIN_REQUIRED_COLUMNS == <<"Lcl Date", "Latitude", "E1 FFlow", "AfcsOn">>
AvidyneSignature ==
  <<"A", "v", "i", "d", "y", "n", "e", " ", "E", "n", "g", "i", "n", "e", " ",
    "D", "a", "t", "a", " ", "L", "o", "g">>
GarminSignature ==
  <<"#", "a", "i", "r", "f", "r", "a", "m", "e", "_", "i", "n", "f", "o", ",",
    " ", "l", "o", "g", "_", "v", "e", "r", "s", "i", "o", "n", "=", "\"",
    "1", ".", "0">>

(***************************************************************************)
(* The strings of the model and their spelling.                            *)
(***************************************************************************)
Strings ==
  {"",
   "Avidyne Engine Data Log",
   "#airframe_info, log_version=\"1.00\"",
   "Date,Time",
   "12/31/07 23:59:59",
   "1/10/69 17:37:44",
   "1/10/70 17:37:44",
   "1/10/99 17:37:44",
   "1/10/100 17:37:44",
   "#units",
   "TIME",
   "LAT",
   "E1",
   "MAP",
   "FF",
   "OAT",
   "  OAT",
   "  Lcl Date",
   " Lcl Time",
   " Latitude",
   " E1 FFlow",
   " AfcsOn",
   "Lcl Date",
   "Lcl Time",
   "Latitude",
   "E1 FFlow",
   "AfcsOn",
   "23:59:58",
   "10:00:07",
   "00:00:02",
   "25:00:00",
   "35.1",
   "1",
   "2020-01-02",
   "2020-01",
   "10:00:00"}

\* the characters of string s
Spelling(s) ==
  CASE s = "Avidyne Engine Data Log" ->
         <<"A", "v", "i", "d", "y", "n", "e", " ", "E", "n", "g", "i", "n", "e", " ", "D", "a", "t", "a", " ", "L", "o", "g">>
    [] s = "#airframe_info, log_version=\"1.00\"" ->
         <<"#", "a", "i", "r", "f", "r", "a", "m", "e", "_", "i", "n", "f", "o", ",", " ", "l", "o", "g", "_", "v", "e", "r", "s", "i", "o", "n", "=", "\"", "1", ".", "0", "0", "\"">>
    [] s = "Date,Time" ->
         <<"D", "a", "t", "e", ",", "T", "i", "m", "e">>
    [] s = "12/31/07 23:59:59" ->
         <<"1", "2", "/", "3", "1", "/", "0", "7", " ", "2", "3", ":", "5", "9", ":", "5", "9">>
    [] s = "1/10/69 17:37:44" ->
         <<"1", "/", "1", "0", "/", "6", "9", " ", "1", "7", ":", "3", "7", ":", "4", "4">>
    [] s = "1/10/70 17:37:44" ->
         <<"1", "/", "1", "0", "/", "7", "0", " ", "1", "7", ":", "3", "7", ":", "4", "4">>
    [] s = "1/10/99 17:37:44" ->
         <<"1", "/", "1", "0", "/", "9", "9", " ", "1", "7", ":", "3", "7", ":", "4", "4">>
    [] s = "1/10/100 17:37:44" ->
         <<"1", "/", "1", "0", "/", "1", "0", "0", " ", "1", "7", ":", "3", "7", ":", "4", "4">>
    [] s = "#units" ->
         <<"#", "u", "n", "i", "t", "s">>
    [] s = "TIME" ->
         <<"T", "I", "M", "E">>
    [] s = "LAT" ->
         <<"L", "A", "T">>
    [] s = "E1" ->
         <<"E", "1">>
    [] s = "MAP" ->
         <<"M", "A", "P">>
    [] s = "FF" ->
         <<"F", "F">>
    [] s = "OAT" ->
         <<"O", "A", "T">>
    [] s = "  OAT" ->
         <<" ", " ", "O", "A", "T">>
    [] s = "  Lcl Date" ->
         <<" ", " ", "L", "c", "l", " ", "D", "a", "t", "e">>
    [] s = " Lcl Time" ->
         <<" ", "L", "c", "l", " ", "T", "i", "m", "e">>
    [] s = " Latitude" ->
         <<" ", "L", "a", "t", "i", "t", "u", "d", "e">>
    [] s = " E1 FFlow" ->
         <<" ", "E", "1", " ", "F", "F", "l", "o", "w">>
    [] s = " AfcsOn" ->
         <<" ", "A", "f", "c", "s", "O", "n">>
    [] s = "Lcl Date" ->
         <<"L", "c", "l", " ", "D", "a", "t", "e">>
    [] s = "Lcl Time" ->
         <<"L", "c", "l", " ", "T", "i", "m", "e">>
    [] s = "Latitude" ->
         <<"L", "a", "t", "i", "t", "u", "d", "e">>
    [] s = "E1 FFlow" ->
         <<"E", "1", " ", "F", "F", "l", "o", "w">>
    [] s = "AfcsOn" ->
         <<"A", "f", "c", "s", "O", "n">>
    [] s = "23:59:58" ->
         <<"2", "3", ":", "5", "9", ":", "5", "8">>
    [] s = "10:00:07" ->
         <<"1", "0", ":", "0", "0", ":", "0", "7">>
    [] s = "00:00:02" ->
         <<"0", "0", ":", "0", "0", ":", "0", "2">>
    [] s = "25:00:00" ->
         <<"2", "5", ":", "0", "0", ":", "0", "0">>
    [] s = "35.1" ->
         <<"3", "5", ".", "1">>
    [] s = "1" ->
         <<"1">>
    [] s = "2020-01-02" ->
         <<"2", "0", "2", "0", "-", "0", "1", "-", "0", "2">>
    [] s = "2020-01" ->
         <<"2", "0", "2", "0", "-", "0", "1">>
    [] s = "10:00:00" ->
         <<"1", "0", ":", "0", "0", ":", "0", "0">>
    [] OTHER -> <<>>

Spellings == [s \in Strings |-> Spelling(s)]

Chars(s) == Spellings[s]

(***************************************************************************)
(* Python values.                                                          *)
(***************************************************************************)
None == [kind |-> "None", n |-> 0, m |-> 0, s |-> ""]
IntVal(i) == [kind |-> "int", n |-> i, m |-> 0, s |-> ""]
FloatVal(mant, frac) == [kind |-> "float", n |-> mant, m |-> frac, s |-> ""]
StrVal(str) == [kind |-> "str", n |-> 0, m |-> 0, s |-> str]
DateTimeVal(ord, sec) == [kind |-> "datetime", n |-> ord, m |-> sec, s |-> ""]

\* the outcome of a call: a value, or the exception type it raised
Ok(v) == [exc |-> "", val |-> v]
Raise(e) == [exc |-> e, val |-> None]

(***************************************************************************)
(* Characters and the parsers.                                             *)
(***************************************************************************)
Digits == {"0", "1", "2", "3", "4", "5", "6", "7", "8", "9"}

DigitVal(c) ==
  CASE c = "0" -> 0 [] c = "1" -> 1 [] c = "2" -> 2 [] c = "3" -> 3
    [] c = "4" -> 4 [] c = "5" -> 5 [] c = "6" -> 6 [] c = "7" -> 7
    [] c = "8" -> 8 [] c = "9" -> 9

\* the string of the model's alphabet spelled cs
Str(cs) == CHOOSE t \in Strings : Chars(t) = cs

\* INT_RE.findall: the maximal runs of digits of cs from position i on, each
\* as its integer; cur is the run being read when inNum
RECURSIVE FindAllInts(_, _, _, _, _)
FindAllInts(cs, i, cur, inNum, acc) ==
  IF i > Len(cs)
    THEN IF inNum THEN Append(acc, cur) ELSE acc
    ELSE IF cs[i] \in Digits
      THEN FindAllInts(cs, i + 1,
                       (IF inNum THEN cur * 10 ELSE 0) + DigitVal(cs[i]),
                       TRUE, acc)
      ELSE FindAllInts(cs, i + 1, 0, FALSE,
                       IF inNum THEN Append(acc, cur) ELSE acc)

\* parse_int_tuple of every string of the model, computed once
IntTuples == [s \in Strings |-> FindAllInts(Chars(s), 1, 0, FALSE, <<>>)]

parse_int_tuple(string) == IntTuples[string]

RECURSIVE LStrip(_)
LStrip(cs) ==
  IF cs # <<>> /\ Head(cs) = " " THEN LStrip(Tail(cs)) ELSE cs

RECURSIVE RStrip(_)
RStrip(cs) ==
  IF cs # <<>> /\ cs[Len(cs)] = " "
    THEN RStrip(SubSeq(cs, 1, Len(cs) - 1))
    ELSE cs

StripChars(cs) == RStrip(LStrip(cs))

\* str.strip() of every string of the model, computed once
Stripped == [s \in Strings |-> Str(StripChars(Chars(s)))]

\* str.strip()
Strip(string) == Stripped[string]

\* cs begins with prefix
IsPrefix(prefix, cs) ==
  Len(cs) >= Len(prefix) /\ SubSeq(cs, 1, Len(prefix)) = prefix

\* str.startswith(prefix), prefix given by its characters
StartsWith(string, prefix) == IsPrefix(prefix, Chars(string))

RECURSIVE DigitsValue(_, _)
DigitsValue(cs, acc) ==
  IF cs = <<>> THEN acc
  ELSE DigitsValue(Tail(cs), acc * 10 + DigitVal(Head(cs)))

AllDigits(cs) == \A i \in 1..Len(cs) : cs[i] \in Digits

\* cs without a leading sign, and the sign
Unsigned(cs) ==
  IF cs # <<>> /\ Head(cs) \in {"+", "-"} THEN Tail(cs) ELSE cs
SignOf(cs) == IF cs # <<>> /\ Head(cs) = "-" THEN -1 ELSE 1

\* int() of the stripped characters cs, for decimal literals; None on
\* ValueError
IntOfChars(cs) ==
  IF Unsigned(cs) # <<>> /\ AllDigits(Unsigned(cs))
    THEN IntVal(SignOf(cs) * DigitsValue(Unsigned(cs), 0))
    ELSE None

\* parse_int of every string of the model, computed once
Ints == [s \in Strings |-> IntOfChars(StripChars(Chars(s)))]

parse_int(string) == Ints[string]

RECURSIVE DropTrailingZeros(_)
DropTrailingZeros(cs) ==
  IF cs # <<>> /\ cs[Len(cs)] = "0"
    THEN DropTrailingZeros(SubSeq(cs, 1, Len(cs) - 1))
    ELSE cs

\* float() of the stripped characters cs, for literals of the form
\* [sign]digits[.digits]; None on ValueError
FloatOfChars(cs) ==
  LET ds == Unsigned(cs)
      dots == {i \in 1..Len(ds) : ds[i] = "."}
  IN IF dots = {}
       THEN IF ds # <<>> /\ AllDigits(ds)
              THEN FloatVal(SignOf(cs) * DigitsValue(ds, 0), 0)
              ELSE None
       ELSE LET p == CHOOSE i \in dots : TRUE
                whole == SubSeq(ds, 1, p - 1)
                frac == SubSeq(ds, p + 1, Len(ds))
            IN IF /\ Cardinality(dots) = 1
                  /\ Len(ds) > 1
                  /\ AllDigits(whole)
                  /\ AllDigits(frac)
                 THEN FloatVal(SignOf(cs)
                                 * DigitsValue(whole \o DropTrailingZeros(frac), 0),
                               Len(DropTrailingZeros(frac)))
                 ELSE None

\* parse_float of every string of the model, computed once
Floats == [s \in Strings |-> FloatOfChars(StripChars(Chars(s)))]

parse_float(string) == Floats[string]

\* ColumnDef.parse for column_type str
parse_str(string) == StrVal(Strip(string))

(***************************************************************************)
(* datetime.                                                               *)
(***************************************************************************)
IsLeap(y) == (y % 4 = 0) /\ ((y % 100 # 0) \/ (y % 400 = 0))

DaysInMonth(y, mo) ==
  IF mo = 2 THEN (IF IsLeap(y) THEN 29 ELSE 28)
  ELSE IF mo \in {4, 6, 9, 11} THEN 30 ELSE 31

RECURSIVE DaysBeforeMonth(_, _)
DaysBeforeMonth(y, mo) ==
  IF mo <= 1 THEN 0
  ELSE DaysBeforeMonth(y, mo - 1) + DaysInMonth(y, mo - 1)

DaysBeforeYear(y) ==
  LET p == y - 1 IN p * 365 + (p \div 4) - (p \div 100) + (p \div 400)

\* datetime.toordinal of the date y-mo-d
Ordinal(y, mo, d) == DaysBeforeYear(y) + DaysBeforeMonth(y, mo) + d

\* datetime(y, mo, d, h, mi, s): ValueError when a field is out of range
MakeDateTime(y, mo, d, h, mi, s) ==
  IF /\ y \in 1..9999 /\ mo \in 1..12 /\ d >= 1 /\ d <= DaysInMonth(y, mo)
     /\ h \in 0..23 /\ mi \in 0..59 /\ s \in 0..59
    THEN Ok(DateTimeVal(Ordinal(y, mo, d), h * 3600 + mi * 60 + s))
    ELSE Raise("ValueError")

\* a < b on datetimes
DateTimeLess(a, b) == a.n < b.n \/ (a.n = b.n /\ a.m < b.m)

\* a + timedelta(days=1)
AddOneDay(a) == DateTimeVal(a.n + 1, a.m)

\* int((a - b).total_seconds())
SecondsBetween(a, b) == (a.n - b.n) * 86400 + (a.m - b.m)

(***************************************************************************)
(* Column schema tables.                                                   *)
(***************************************************************************)
AvidyneFloatColumns == {"LAT", "LON", "MAP", "FF", "USED", "MBUS", "EBUS"}
AvidyneIntColumns ==
  {"PALT", "DALT", "E1", "E2", "E3", "E4", "E5", "E6", "C1", "C2", "C3",
   "C4", "C5", "C6", "OILT", "OILP", "RPM", "OAT", "AMP1", "AMP2", "AMPB",
   "TIT"}

\* AVIDYNE_COLUMN_TABLE.get(name).column_type; "" when name is not a key
AVIDYNE_COLUMN_TABLE(name) ==
  IF name \in AvidyneFloatColumns THEN "float"
  ELSE IF name \in AvidyneIntColumns THEN "int"
  ELSE IF name = "TIME" THEN "str"
  ELSE ""

GarminStrColumns ==
  {"Lcl Date", "Lcl Time", "UTCOfst", "AtvWpt", "AltMSL", "HSIS", "VCDI",
   "RollM", "PitchM"}
GarminIntColumns == {"TAS", "AfcsOn"}
GarminFloatColumns ==
  {"Latitude", "Longitude", "AltB", "BaroA", "OAT", "IAS", "GndSpd", "VSpd",
   "Pitch", "Roll", "LatAc", "NormAc", "HDG", "TRK", "volt1", "volt2",
   "amp1", "FQtyL", "FQtyR", "E1 FFlow", "E1 OilT", "E1 OilP", "E1 MAP",
   "E1 RPM", "E1 %Pwr", "E1 CHT1", "E1 CHT2", "E1 CHT3", "E1 CHT4",
   "E1 CHT5", "E1 CHT6", "E1 EGT1", "E1 EGT2", "E1 EGT3", "E1 EGT4",
   "E1 EGT5", "E1 EGT6", "E1 TIT1", "E1 TIT2", "AltGPS", "CRS", "NAV1",
   "NAV2", "COM1", "COM2", "HCDI", "WndSpd", "WndDr", "WptDst", "WptBrg",
   "MagVar", "RollC", "PichC", "VSpdG", "GPSfix", "AltInd", "amp2",
   "E1 Torq", "E1 NG", "E1 ITT", "E1 N1", "E1 N2"}

\* GARMIN_COLUMN_TABLE.get(name).column_type; "" when name is not a key
GARMIN_COLUMN_TABLE(name) ==
  IF name \in GarminFloatColumns THEN "float"
  ELSE IF name \in GarminIntColumns THEN "int"
  ELSE IF name \in GarminStrColumns THEN "str"
  ELSE ""

ColumnTable(vendor, name) ==
  IF vendor = VENDOR_AVIDYNE THEN AVIDYNE_COLUMN_TABLE(name)
  ELSE GARMIN_COLUMN_TABLE(name)

ColumnDef(name, column_type) == [name |-> name, column_type |-> column_type]

\* ColumnDef.parse
ColumnDefParse(column_type, string) ==
  IF column_type = "float" THEN parse_float(string)
  ELSE IF column_type = "int" THEN parse_int(string)
  ELSE parse_str(string)

\* unknown columns are left as strings
map_columns(vendor, name) ==
  IF ColumnTable(vendor, name) = "" THEN ColumnDef(name, "str")
  ELSE ColumnDef(name, ColumnTable(vendor, name))

(***************************************************************************)
(* The name -> position dictionary column_idx: keys in insertion order     *)
(* and the position each key maps to (0-based, as in the code).            *)
(***************************************************************************)
\* the names of column_names without repetitions, in order of first occurrence
RECURSIVE DictKeys(_, _)
DictKeys(column_names, acc) ==
  IF column_names = <<>> THEN acc
  ELSE DictKeys(Tail(column_names),
                IF \E i \in 1..Len(acc) : acc[i] = Head(column_names)
                  THEN acc
                  ELSE Append(acc, Head(column_names)))

\* {name: i for i, name in enumerate(column_names)}: a later duplicate
\* overwrites the position
MakeColumnIdx(column_names) ==
  [keys |-> DictKeys(column_names, <<>>),
   at |-> [name \in {column_names[i] : i \in 1..Len(column_names)} |->
             (CHOOSE i \in 1..Len(column_names) :
                /\ column_names[i] = name
                /\ \A j \in 1..Len(column_names) :
                     column_names[j] = name => j <= i) - 1]]

EmptyColumnIdx == [keys |-> <<>>, at |-> [name \in {} |-> 0]]

\* name in column_idx
InIdx(column_idx, name) == name \in DOMAIN column_idx.at

\* column_idx.get(name, -1)
IdxGet(column_idx, name) ==
  IF InIdx(column_idx, name) THEN column_idx.at[name] ELSE -1

\* FlightLog._set_column_mappings: [columns, column_idx]
SetColumnMappings(vendor, column_names) ==
  [columns |-> [i \in 1..Len(column_names) |->
                  map_columns(vendor, column_names[i])],
   column_idx |-> MakeColumnIdx(column_names)]

\* FirstMissing with the last required name left unchecked
RECURSIVE FirstMissingButLast(_, _)
FirstMissingButLast(required, column_idx) ==
  IF Len(required) <= 1 THEN ""
  ELSE IF ~InIdx(column_idx, Head(required)) THEN Head(required)
  ELSE FirstMissingButLast(Tail(required), column_idx)

\* the first name of required that is not in column_idx, "" when all are
RECURSIVE FirstMissing(_, _)
FirstMissing(required, column_idx) ==
  IF required = <<>> THEN ""
  ELSE IF ~InIdx(column_idx, Head(required)) THEN Head(required)
  ELSE FirstMissing(Tail(required), column_idx)

(***************************************************************************)
(* Files.  A file is its first two lines and, when it has a third line, the *)
(* header row and the data rows, each row given as the list of fields      *)
(* csv.reader yields for it.                                               *)
(***************************************************************************)
NumLines(f) == IF f.hasHeader THEN 3 + Len(f.rows) ELSE 2

\* [s.strip() for s in reader.__next__()]
ColumnNames(f) == [i \in 1..Len(f.header) |-> Strip(f.header[i])]

(***************************************************************************)
(* Opening a log.  The outcome of a constructor is the exception type it   *)
(* raised ("" when none), the members it set and the number of lines the   *)
(* stream has been read past.                                              *)
(***************************************************************************)
NoLog ==
  [vendor |-> "", columns |-> <<>>, column_idx |-> EmptyColumnIdx,
   start_time |-> None]

NoMaps == [columns |-> <<>>, column_idx |-> EmptyColumnIdx]

\* a constructor's outcome: start is the outcome of computing the start time
Constructed(start, vendor, maps, pos) ==
  [exc |-> start.exc, pos |-> pos,
   log |-> [vendor |-> vendor, columns |-> maps.columns,
            column_idx |-> maps.column_idx, start_time |-> start.val]]

AvidyneCheckFirstLine(line) == StartsWith(line, AvidyneSignature)
GarminCheckFirstLine(line) == StartsWith(line, GarminSignature)

\* AvidyneStartAt with year 70 taken for the 21st century
AvidyneStartAtAfter70(header_date_time, first_timestamp) ==
  IF Len(first_timestamp) # 3 THEN Raise("AssertionError")
  ELSE MakeDateTime(IF header_date_time[3] > 70
                      THEN header_date_time[3] + 1900
                      ELSE header_date_time[3] + 2000,
                    header_date_time[1], header_date_time[2],
                    first_timestamp[1], first_timestamp[2],
                    first_timestamp[3])

\* AvidyneFlightLog.compute_start_time from the assertion on the first
\* entry's time on
AvidyneStartAt(header_date_time, first_timestamp) ==
  IF Len(first_timestamp) # 3 THEN Raise("AssertionError")
  ELSE MakeDateTime(IF header_date_time[3] >= 70
                      THEN header_date_time[3] + 1900
                      ELSE header_date_time[3] + 2000,
                    header_date_time[1], header_date_time[2],
                    first_timestamp[1], first_timestamp[2],
                    first_timestamp[3])

\* AvidyneFlightLog.compute_start_time from the assertion on line 2 on:
\* month, day, year are header_date_time[1..3]
AvidyneStartFrom(header_date_time, first_entry) ==
  IF Len(header_date_time) # 6 THEN Raise("AssertionError")
  ELSE IF header_date_time[3] > 99 THEN Raise("FlightLogException")
  ELSE IF Len(first_entry) = 0 THEN Raise("IndexError")
  ELSE AvidyneStartAt(header_date_time, parse_int_tuple(first_entry[1]))

\* AvidyneFlightLog.compute_start_time
AvidyneComputeStartTime(line2, first_entry) ==
  AvidyneStartFrom(parse_int_tuple(line2), first_entry)

\* AvidyneFlightLog.__init__ from the required-column check on
AvidyneValidate(f, maps) ==
  IF FirstMissing(AVIDYNE_REQUIRED_COLUMNS, maps.column_idx) # ""
    THEN Constructed(Raise("FlightLogException"), VENDOR_AVIDYNE, maps, 4)
    ELSE Constructed(AvidyneComputeStartTime(Strip(f.line2), f.rows[1]),
                     VENDOR_AVIDYNE, maps, 4)

\* AvidyneFlightLog.__init__
AvidyneInit(f) ==
  IF ~f.hasHeader \/ Len(f.rows) = 0
    THEN Constructed(Raise("FlightLogException"), "", NoMaps, NumLines(f))
    ELSE AvidyneValidate(f, SetColumnMappings(VENDOR_AVIDYNE, ColumnNames(f)))

\* GarminFlightLog.compute_start_time at row i, from the assertion on the
\* time on
GarminStartAt(year_month_day, hour_minute_second) ==
  IF Len(hour_minute_second) # 3 THEN Raise("AssertionError")
  ELSE MakeDateTime(year_month_day[1], year_month_day[2], year_month_day[3],
                    hour_minute_second[1], hour_minute_second[2],
                    hour_minute_second[3])

\* GarminFlightLog.compute_start_time over the rows from position i on: the
\* outcome and the number of rows read
RECURSIVE GarminComputeStartTime(_, _)

\* the body of the loop of compute_start_time at row i
GarminStartFrom(rows, i, year_month_day) ==
  IF Len(year_month_day) = 0 THEN GarminComputeStartTime(rows, i + 1)
  ELSE IF Len(year_month_day) # 3
    THEN [out |-> Raise("AssertionError"), read |-> i]
  ELSE IF Len(rows[i]) < 2 THEN [out |-> Raise("IndexError"), read |-> i]
  ELSE [out |-> GarminStartAt(year_month_day, parse_int_tuple(rows[i][2])),
        read |-> i]

GarminComputeStartTime(rows, i) ==
  IF i > Len(rows) THEN [out |-> Ok(None), read |-> Len(rows)]
  ELSE IF Len(rows[i]) = 0 THEN [out |-> Raise("IndexError"), read |-> i]
  ELSE GarminStartFrom(rows, i, parse_int_tuple(rows[i][1]))

\* GarminFlightLog.__init__ once the start time is computed
GarminStarted(maps, start) ==
  Constructed(start.out, VENDOR_GARMIN, maps, 3 + start.read)

\* GarminFlightLog.__init__ from the required-column check on
GarminValidate(f, maps) ==
  IF FirstMissing(GARMIN_REQUIRED_COLUMNS, maps.column_idx) # ""
    THEN Constructed(Raise("FlightLogException"), VENDOR_GARMIN, maps, 3)
    ELSE GarminStarted(maps, GarminComputeStartTime(f.rows, 1))

\* GarminFlightLog.__init__
GarminInit(f) ==
  IF ~f.hasHeader
    THEN Constructed(Raise("FlightLogException"), "", NoMaps, NumLines(f))
    ELSE GarminValidate(f, SetColumnMappings(VENDOR_GARMIN, ColumnNames(f)))

\* the end of FlightLog.open after a constructor: its exception, else the
\* assertion that columns and column_idx are not empty; the stream stays open
AfterConstructor(c) ==
  [exc |-> IF c.exc # "" THEN c.exc
           ELSE IF c.log.columns = <<>> \/ c.log.column_idx.keys = <<>>
             THEN "AssertionError"
             ELSE "",
   log |-> c.log,
   inf |-> [state |-> "open", pos |-> c.pos]]

\* FlightLog.open: the exception raised ("" when a log is returned), the
\* members set and the stream (closed by open only when no signature matches)
FlightLogOpen(f) ==
  IF AvidyneCheckFirstLine(f.line1) THEN AfterConstructor(AvidyneInit(f))
  ELSE IF GarminCheckFirstLine(f.line1) THEN AfterConstructor(GarminInit(f))
  ELSE [exc |-> "FlightLogException", log |-> NoLog,
        inf |-> [state |-> "closed", pos |-> 1]]

(***************************************************************************)
(* Column readers.  A reader is a record [kind, column_type, input_col_idx, *)
(* date_col_idx, time_col_idx, start_time]; kind names its class.  Column  *)
(* positions are 0-based as in the code: input_row[k] is element k + 1.    *)
(***************************************************************************)
ColumnReader(column_def, input_col_idx) ==
  [kind |-> "ColumnReader", column_type |-> column_def.column_type,
   input_col_idx |-> input_col_idx, date_col_idx |-> -1,
   time_col_idx |-> -1, start_time |-> None]

AvidyneTimestampReader(start_time, time_col_idx) ==
  [kind |-> "AvidyneTimestampReader", column_type |-> "",
   input_col_idx |-> -1, date_col_idx |-> -1,
   time_col_idx |-> time_col_idx, start_time |-> start_time]

AvidyneElapsedReader(start_time, time_col_idx) ==
  [kind |-> "AvidyneElapsedReader", column_type |-> "",
   input_col_idx |-> -1, date_col_idx |-> -1,
   time_col_idx |-> time_col_idx, start_time |-> start_time]

GarminTimestampReader(date_col_idx, time_col_idx) ==
  [kind |-> "GarminTimestampReader", column_type |-> "",
   input_col_idx |-> -1, date_col_idx |-> date_col_idx,
   time_col_idx |-> time_col_idx, start_time |-> None]

GarminElapsedReader(start_time, date_col_idx, time_col_idx) ==
  [kind |-> "GarminElapsedReader", column_type |-> "",
   input_col_idx |-> -1, date_col_idx |-> date_col_idx,
   time_col_idx |-> time_col_idx, start_time |-> start_time]

Max(a, b) == IF a >= b THEN a ELSE b

\* max_col_needed of each reader class
max_col_needed(reader) ==
  IF reader.kind = "ColumnReader" THEN reader.input_col_idx
  ELSE IF reader.kind \in {"AvidyneTimestampReader", "AvidyneElapsedReader"}
    THEN reader.time_col_idx
  ELSE Max(reader.date_col_idx, reader.time_col_idx)

\* datetime(start_time.year, start_time.month, start_time.day, h, mi, s)
OnDateOf(start_time, h, mi, s) ==
  IF h \in 0..23 /\ mi \in 0..59 /\ s \in 0..59
    THEN Ok(DateTimeVal(start_time.n, h * 3600 + mi * 60 + s))
    ELSE Raise("ValueError")

\* AvidyneDayWrap with a timestamp equal to the start time wrapped as well
AvidyneDayWrapAtStart(start_time, timestamp) ==
  IF timestamp.exc # "" THEN timestamp
  ELSE IF ~DateTimeLess(start_time, timestamp.val)
    THEN Ok(AddOneDay(timestamp.val))
    ELSE timestamp

\* AvidyneDayWrap without the day wrap
AvidyneNoDayWrap(start_time, timestamp) == timestamp

\* the day wrap of AvidyneTimestampReader.makeTimestamp
AvidyneDayWrap(start_time, timestamp) ==
  IF timestamp.exc # "" THEN timestamp
  ELSE IF DateTimeLess(timestamp.val, start_time)
    THEN Ok(AddOneDay(timestamp.val))
    ELSE timestamp

\* AvidyneTimestampReader.makeTimestamp once the TIME field is parsed
AvidyneTimestampOf(start_time, hour_minute_second) ==
  IF Len(hour_minute_second) # 3 THEN Ok(None)
  ELSE AvidyneDayWrap(start_time,
                      OnDateOf(start_time, hour_minute_second[1],
                               hour_minute_second[2], hour_minute_second[3]))

\* AvidyneTimestampReader.makeTimestamp
AvidyneMakeTimestamp(reader, input_row) ==
  AvidyneTimestampOf(reader.start_time,
                     parse_int_tuple(input_row[reader.time_col_idx + 1]))

\* GarminTimestampReader.makeTimestamp once date and time are parsed
GarminTimestampAt(year_month_day, hour_minute_second) ==
  IF Len(hour_minute_second) # 3 THEN Ok(None)
  ELSE MakeDateTime(year_month_day[1], year_month_day[2], year_month_day[3],
                    hour_minute_second[1], hour_minute_second[2],
                    hour_minute_second[3])

\* GarminTimestampReader.makeTimestamp once the date is parsed
GarminTimestampOf(reader, input_row, year_month_day) ==
  IF Len(year_month_day) # 3 THEN Ok(None)
  ELSE GarminTimestampAt(year_month_day,
                         parse_int_tuple(input_row[reader.time_col_idx + 1]))

\* GarminTimestampReader.makeTimestamp
GarminMakeTimestamp(reader, input_row) ==
  GarminTimestampOf(reader, input_row,
                    parse_int_tuple(input_row[reader.date_col_idx + 1]))

\* ElapsedSince with the subtraction attempted before the test for None
ElapsedSinceUnchecked(now, start_time) ==
  IF now.exc # "" THEN now
  ELSE IF start_time = None \/ now.val = None THEN Raise("TypeError")
  ELSE Ok(IntVal(SecondsBetween(now.val, start_time)))

\* now - self.start_time, in whole seconds: TypeError when start_time is None
ElapsedSince(now, start_time) ==
  IF now.exc # "" THEN now
  ELSE IF now.val = None THEN Ok(None)
  ELSE IF start_time = None THEN Raise("TypeError")
  ELSE Ok(IntVal(SecondsBetween(now.val, start_time)))

\* reader.read(input_row) of each reader class
ReaderRead(reader, input_row) ==
  IF reader.kind = "ColumnReader"
    THEN Ok(ColumnDefParse(reader.column_type,
                           input_row[reader.input_col_idx + 1]))
  ELSE IF reader.kind = "AvidyneTimestampReader"
    THEN AvidyneMakeTimestamp(reader, input_row)
  ELSE IF reader.kind = "AvidyneElapsedReader"
    THEN ElapsedSince(AvidyneMakeTimestamp(reader, input_row),
                      reader.start_time)
  ELSE IF reader.kind = "GarminTimestampReader"
    THEN GarminMakeTimestamp(reader, input_row)
  ELSE ElapsedSince(GarminMakeTimestamp(reader, input_row),
                    reader.start_time)

\* the outcome of making a reader when the column it needs is missing
NoReader ==
  [exc |-> "FlightLogException", reader |-> ColumnReader(ColumnDef("", ""), -1)]

\* createTimestampColumnReader / createElapsedColumnReader of the log's
\* class: [exc, reader]
CreateTimeReader(log, elapsed) ==
  IF log.vendor = VENDOR_AVIDYNE
    THEN LET time_col == IdxGet(log.column_idx, "TIME") IN
         IF time_col = -1
           THEN NoReader
           ELSE [exc |-> "",
                 reader |-> IF elapsed
                              THEN AvidyneElapsedReader(log.start_time, time_col)
                              ELSE AvidyneTimestampReader(log.start_time, time_col)]
    ELSE LET date_col == IdxGet(log.column_idx, "Lcl Date")
             time_col == IdxGet(log.column_idx, "Lcl Time")
         IN IF date_col = -1 \/ time_col = -1
              THEN NoReader
              ELSE [exc |-> "",
                    reader |-> IF elapsed
                                 THEN GarminElapsedReader(log.start_time, date_col, time_col)
                                 ELSE GarminTimestampReader(date_col, time_col)]

\* the reader read() makes for one requested name: [exc, reader]
MakeReader(log, name) ==
  IF name = COLUMN_NAME_TIMESTAMP THEN CreateTimeReader(log, FALSE)
  ELSE IF name = COLUMN_NAME_ELAPSED THEN CreateTimeReader(log, TRUE)
  ELSE LET input_idx == IdxGet(log.column_idx, name) IN
       IF input_idx = -1
         THEN NoReader
         ELSE [exc |-> "",
               reader |-> ColumnReader(log.columns[input_idx + 1], input_idx)]

(***************************************************************************)
(* FlightLog.read.                                                         *)
(***************************************************************************)
\* the first loop of read over requested_columns[i..]: the exception raised
\* ("" when none), the readers made and n_input_cols_needed
RECURSIVE BuildReaders(_, _, _, _, _)

\* one pass of that loop, made being the reader for requested_columns[i]
BuildReader(log, requested_columns, i, column_readers, n_input_cols_needed, made) ==
  IF made.exc # ""
    THEN [exc |-> made.exc, column_readers |-> column_readers,
          n_input_cols_needed |-> n_input_cols_needed]
    ELSE BuildReaders(log, requested_columns, i + 1,
                      Append(column_readers, made.reader),
                      Max(n_input_cols_needed,
                          1 + max_col_needed(made.reader)))

BuildReaders(log, requested_columns, i, column_readers, n_input_cols_needed) ==
  IF i > Len(requested_columns)
    THEN [exc |-> "", column_readers |-> column_readers,
          n_input_cols_needed |-> n_input_cols_needed]
    ELSE BuildReader(log, requested_columns, i, column_readers,
                     n_input_cols_needed,
                     MakeReader(log, requested_columns[i]))

\* the inner loop of read on one row, from output column output_idx (1-based)
\* on: the result so far and the exception that stopped it ("" when none)
RECURSIVE ReadRow(_, _, _, _)

\* one pass of that loop, value being the outcome of the reader's read
ReadValue(column_readers, row, output_idx, result, value) ==
  IF value.exc # "" THEN [exc |-> value.exc, result |-> result]
  ELSE ReadRow(column_readers, row, output_idx + 1,
               [result EXCEPT ![output_idx] = Append(@, value.val)])

ReadRow(column_readers, row, output_idx, result) ==
  IF output_idx > Len(column_readers) THEN [exc |-> "", result |-> result]
  ELSE ReadValue(column_readers, row, output_idx, result,
                 ReaderRead(column_readers[output_idx], row))

\* the row loop of read from data row i on.  rows_read is the set of data
\* rows handed to the readers, failed_row the data row on which a reader
\* raised (0 when none), logged_line the line number printed (0 when nothing
\* was printed), pos the number of lines the stream has been read past
RECURSIVE ReadRows(_, _, _, _, _, _, _)

\* RetainedRow with continue in place of return: a failing row is passed over
RetainedRowContinue(column_readers, n_input_cols_needed, rows, i, line_no, rows_read, row) ==
  ReadRows(column_readers, n_input_cols_needed, rows, i + 1, row.result,
           line_no + 1, rows_read \cup {i})

\* a retained row i, row being the outcome of the inner loop on it
RetainedRow(column_readers, n_input_cols_needed, rows, i, line_no, rows_read, row) ==
  IF row.exc # ""
    THEN [result |-> row.result, rows_read |-> rows_read \cup {i},
          failed_row |-> i, logged_line |-> line_no + 1, pos |-> 3 + i]
    ELSE ReadRows(column_readers, n_input_cols_needed, rows, i + 1,
                  row.result, line_no + 1, rows_read \cup {i})

\* ReadRows with break in place of continue: a short row ends the read
ReadRowsBreak(column_readers, n_input_cols_needed, rows, i, result, line_no, rows_read) ==
  IF i > Len(rows) \/ Len(rows[i]) < n_input_cols_needed
    THEN [result |-> result, rows_read |-> rows_read, failed_row |-> 0,
          logged_line |-> 0,
          pos |-> IF i > Len(rows) THEN 3 + Len(rows) ELSE 3 + i]
    ELSE RetainedRow(column_readers, n_input_cols_needed, rows, i, line_no,
                     rows_read,
                     ReadRow(column_readers, rows[i], 1, result))

ReadRows(column_readers, n_input_cols_needed, rows, i, result, line_no, rows_read) ==
  IF i > Len(rows)
    THEN [result |-> result, rows_read |-> rows_read, failed_row |-> 0,
          logged_line |-> 0, pos |-> 3 + Len(rows)]
  ELSE IF Len(rows[i]) < n_input_cols_needed
    THEN ReadRows(column_readers, n_input_cols_needed, rows, i + 1, result,
                  line_no, rows_read)
  ELSE RetainedRow(column_readers, n_input_cols_needed, rows, i, line_no,
                   rows_read,
                   ReadRow(column_readers, rows[i], 1, result))

NoCall ==
  [requested_columns |-> <<>>, exc |-> "", returned |-> FALSE,
   result |-> <<>>, n_input_cols_needed |-> 0, rows_read |-> {},
   failed_row |-> 0, logged_line |-> 0, pos |-> 0]

\* read once the row loop has ended
ReadReturn(requested_columns, n_input_cols_needed, done) ==
  [requested_columns |-> requested_columns, exc |-> "", returned |-> TRUE,
   result |-> done.result, n_input_cols_needed |-> n_input_cols_needed,
   rows_read |-> done.rows_read, failed_row |-> done.failed_row,
   logged_line |-> done.logged_line, pos |-> done.pos]

\* ReadWith with the stream rewound before the readers are built
ReadWithSeekFirst(f, pos, requested_columns, built) ==
  IF built.exc # ""
    THEN [NoCall EXCEPT !.requested_columns = requested_columns,
                        !.exc = built.exc, !.pos = 0,
                        !.n_input_cols_needed = built.n_input_cols_needed]
    ELSE ReadReturn(requested_columns, built.n_input_cols_needed,
                    ReadRows(built.column_readers, built.n_input_cols_needed,
                             f.rows, 1,
                             [k \in 1..Len(requested_columns) |-> <<>>],
                             3, {}))

\* ReadWith without the rewind: the three lines are skipped and the rows
\* are read from where the stream is
ReadWithNoSeek(f, pos, requested_columns, built) ==
  IF built.exc # ""
    THEN [NoCall EXCEPT !.requested_columns = requested_columns,
                        !.exc = built.exc, !.pos = pos,
                        !.n_input_cols_needed = built.n_input_cols_needed]
    ELSE ReadReturn(requested_columns, built.n_input_cols_needed,
                    ReadRows(built.column_readers, built.n_input_cols_needed,
                             f.rows, pos + 1,
                             [k \in 1..Len(requested_columns) |-> <<>>],
                             3, {}))

\* read once the readers are built: the FlightLogException of the first
\* loop leaves the stream where it was; otherwise the stream is rewound,
\* three lines are skipped (line_no = 3) and the rows are read
ReadWith(f, pos, requested_columns, built) ==
  IF built.exc # ""
    THEN [NoCall EXCEPT !.requested_columns = requested_columns,
                        !.exc = built.exc, !.pos = pos,
                        !.n_input_cols_needed = built.n_input_cols_needed]
    ELSE ReadReturn(requested_columns, built.n_input_cols_needed,
                    ReadRows(built.column_readers, built.n_input_cols_needed,
                             f.rows, 1,
                             [k \in 1..Len(requested_columns) |-> <<>>],
                             3, {}))

\* FlightLog.read(requested_columns) on log l over file f with the stream at
\* pos: what the call did
FlightLogRead(l, f, pos, requested_columns) ==
  ReadWith(f, pos, requested_columns,
           BuildReaders(l, requested_columns, 1, <<>>, 0))

(***************************************************************************)
(* The inputs of the model.                                                *)
(***************************************************************************)
SeqsUpTo(S, n) == UNION {[1..k -> S] : k \in 0..n}

\* the field a data row holds under the header name
Field(name, date, time) ==
  IF name = "TIME" \/ name = "Lcl Time" THEN time
  ELSE IF name = "Lcl Date" THEN date
  ELSE IF name = "LAT" THEN "35.1"
  ELSE IF name = "Latitude" THEN ""
  ELSE "1"

\* the first w fields of a data row under header
DataRow(header, date, time, w) ==
  [i \in 1..w |-> Field(Strip(header[i]), date, time)]

\* header rows: with and without the optional OAT column, with TIME not in
\* the first position, and with a required column missing
AvidyneHeaders ==
  {<<"TIME", "LAT", "E1", "MAP", "FF", "OAT">>,
   <<"TIME", "LAT", "E1", "MAP", "FF">>,
   <<"LAT", "TIME", "E1", "MAP", "FF">>,
   <<"TIME", "LAT", "E1", "MAP">>}

\* header rows, padded as Garmin writes them: with the optional OAT column,
\* with 'Lcl Date' not in the first position, without 'Lcl Time', and with
\* a required column missing
GarminHeaders ==
  {<<"  Lcl Date", " Lcl Time", " Latitude", " E1 FFlow", " AfcsOn", "  OAT">>,
   <<" Latitude", "  Lcl Date", " Lcl Time", " E1 FFlow", " AfcsOn">>,
   <<"  Lcl Date", " Latitude", " E1 FFlow", " AfcsOn", "  OAT">>,
   <<"  Lcl Date", " Lcl Time", " Latitude", " E1 FFlow">>}

AvidyneTimes == {"23:59:58", "00:00:02", "25:00:00", ""}
\* the 'Lcl Date' and 'Lcl Time' fields of a Garmin row: no date yet, a date,
\* the same date seven seconds later, a date cut short
GarminStamps ==
  {<<"", "10:00:00">>, <<"2020-01-02", "10:00:00">>,
   <<"2020-01-02", "10:00:07">>, <<"2020-01", "10:00:00">>}

\* line 2 of an Avidyne file: the date and time the log was started, with
\* years on both sides of the two-digit rule and of its upper limit, and a
\* blank line
AvidyneLine2 ==
  {"12/31/07 23:59:59", "1/10/69 17:37:44", "1/10/70 17:37:44",
   "1/10/99 17:37:44", "1/10/100 17:37:44", ""}

\* full rows, and one row cut after its first field
AvidyneRows(header) ==
  {DataRow(header, "", t, Len(header)) : t \in AvidyneTimes}
    \cup {DataRow(header, "", "00:00:02", 1)}

GarminRows(header) ==
  {DataRow(header, dt[1], dt[2], Len(header)) : dt \in GarminStamps}
    \cup {DataRow(header, "", "10:00:00", 1)}

AvidyneFiles ==
  UNION {{[line1 |-> "Avidyne Engine Data Log", line2 |-> l2,
           hasHeader |-> TRUE, header |-> h, rows |-> rows] :
            l2 \in AvidyneLine2,
            rows \in SeqsUpTo(AvidyneRows(h), MaxRows)} :
         h \in AvidyneHeaders}

GarminFiles ==
  UNION {{[line1 |-> "#airframe_info, log_version=\"1.00\"",
           line2 |-> "#units", hasHeader |-> TRUE, header |-> h,
           rows |-> rows] :
            rows \in SeqsUpTo(GarminRows(h), MaxRows)} :
         h \in GarminHeaders}

\* files of one or two lines, and files with no vendor signature
ShortFiles ==
  {[line1 |-> l1, line2 |-> "", hasHeader |-> FALSE, header |-> <<>>,
    rows |-> <<>>] :
     l1 \in {"", "Date,Time", "Avidyne Engine Data Log",
             "#airframe_info, log_version=\"1.00\""}}

Files == AvidyneFiles \cup GarminFiles \cup ShortFiles

\* the names a caller asks for: the two computed columns and OAT, a column of
\* both vendors' tables that only some of the header rows hold
RequestNames == {COLUMN_NAME_TIMESTAMP, COLUMN_NAME_ELAPSED, "OAT"}
Requests == SeqsUpTo(RequestNames, MaxReq)

\* the files and the requests of a caller that reads again and again
RereadFiles == {f \in Files : Len(f.rows) <= MaxRereadRows}
RereadRequests == SeqsUpTo(RequestNames, 1)

(***************************************************************************)
(* The state machine: a caller opens one file and reads from the log.      *)
(***************************************************************************)
VARIABLES
  file,      \* the contents of the file on disk
  pc,        \* "start", "opened" (open returned a log), "open_failed"
             \* (open raised) or "read" (read has been called)
  open_exc,  \* the exception type open raised, "" when none
  inf,       \* the stream open() opened: its state ("none" before open,
             \* "open", "closed") and the number of lines read past
  log,       \* the members of the log open returned, NoLog when none
  call,      \* what the latest call of read did, NoCall before it
  prev       \* what the call of read before the latest did, NoCall when
             \* there is none

vars == <<file, pc, open_exc, inf, log, call, prev>>

Init ==
  /\ file \in Files
  /\ pc = "start"
  /\ open_exc = ""
  /\ inf = [state |-> "none", pos |-> 0]
  /\ log = NoLog
  /\ call = NoCall
  /\ prev = NoCall

\* the caller's state once open has ended with outcome o
Opened(o) ==
  /\ pc' = IF o.exc = "" THEN "opened" ELSE "open_failed"
  /\ open_exc' = o.exc
  /\ inf' = o.inf
  /\ log' = IF o.exc = "" THEN o.log ELSE NoLog

\* log = FlightLog.open(filename)
Open ==
  /\ pc = "start"
  /\ Opened(FlightLogOpen(file))
  /\ UNCHANGED <<file, call, prev>>

\* the caller's state once read has ended as c
Called(c) ==
  /\ call' = c
  /\ inf' = [inf EXCEPT !.pos = c.pos]

\* log.read(requested_columns)
Read(requested_columns) ==
  /\ Called(FlightLogRead(log, file, inf.pos, requested_columns))
  /\ pc' = "read"
  /\ prev' = call
  /\ UNCHANGED <<file, open_exc, log>>

\* the caller reads some list of names
ReadSome ==
  /\ pc = "opened"
  /\ \E requested_columns \in Requests : Read(requested_columns)

Next == Open \/ ReadSome

Spec == Init /\ [][Next]_vars

(***************************************************************************)
(* A caller that reads from the opened log again and again, one name at a  *)
(* time.                                                                   *)
(***************************************************************************)
InitReread == Init /\ file \in RereadFiles

\* the caller reads once more, wherever open or the call before left the
\* stream
ReadNext ==
  /\ pc \in {"opened", "read"}
  /\ \E requested_columns \in RereadRequests : Read(requested_columns)

NextReread == Open \/ ReadNext

SpecReread == InitReread /\ [][NextReread]_vars


(***************************************************************************)
(* Vocabulary of the properties, stated from the file and the request      *)
(* rather than from what read() recorded.                                  *)
(***************************************************************************)
ReadReturned == pc = "read" /\ call.returned

VirtualNames == {COLUMN_NAME_TIMESTAMP, COLUMN_NAME_ELAPSED}

\* the vendor whose signature begins the file's first line, "" when none
FileVendor(f) ==
  IF f.line1 = "Avidyne Engine Data Log" THEN VENDOR_AVIDYNE
  ELSE IF f.line1 = "#airframe_info, log_version=\"1.00\"" THEN VENDOR_GARMIN
  ELSE ""

\* the highest column position the reader of a requested name touches
NamePos(l, name) ==
  IF name \notin VirtualNames THEN l.column_idx.at[name]
  ELSE IF l.vendor = VENDOR_AVIDYNE THEN l.column_idx.at["TIME"]
  ELSE Max(l.column_idx.at["Lcl Date"], l.column_idx.at["Lcl Time"])

\* the minimum width W of a request: 1 + the maximum max_col_needed()
MinWidth(l, requested) ==
  IF requested = <<>> THEN 0
  ELSE 1 + (CHOOSE p \in {NamePos(l, requested[k]) : k \in 1..Len(requested)} :
              \A k \in 1..Len(requested) : NamePos(l, requested[k]) <= p)

\* the data rows with at least w fields, as row numbers in file order
WideRows(f, w) ==
  SelectSeq([i \in 1..Len(f.rows) |-> i], LAMBDA i : Len(f.rows[i]) >= w)

\* what the reader of requested name does on data row i
ValueAt(l, f, name, i) == ReaderRead(MakeReader(l, name).reader, f.rows[i])

\* some requested reader raises on data row i
RowFails(l, f, requested, i) ==
  \E k \in 1..Len(requested) : ValueAt(l, f, requested[k], i).exc # ""

\* the position in wide of the first row on which a requested reader raises,
\* 0 when there is none
FirstFailure(l, f, requested, wide) ==
  IF \E j \in 1..Len(wide) : RowFails(l, f, requested, wide[j])
    THEN CHOOSE j \in 1..Len(wide) :
           /\ RowFails(l, f, requested, wide[j])
           /\ \A h \in 1..(j - 1) : ~RowFails(l, f, requested, wide[h])
    ELSE 0

(***************************************************************************)
(* C1: whenever read(requested_columns) returns, on every path including   *)
(* the early return after a reader failure in the middle of a row, the     *)
(* result has one sequence per requested name and all the sequences have   *)
(* the same length.  (Refuted: the early return keeps the values already   *)
(* appended for the failing row.)                                          *)
(***************************************************************************)
C1_EqualLengths ==
  ReadReturned =>
    /\ Len(call.result) = Len(call.requested_columns)
    /\ \A i, j \in 1..Len(call.result) :
         Len(call.result[i]) = Len(call.result[j])

C3_StopsAtFailingRow ==
  (pc = "read" /\ call.exc = "") =>
    LET wide == WideRows(file, MinWidth(log, call.requested_columns))
        fail == FirstFailure(log, file, call.requested_columns, wide)
    IN fail # 0 =>
         /\ call.returned
         /\ call.failed_row = wide[fail]
         /\ call.rows_read = {wide[j] : j \in 1..fail}
         /\ Len(call.result) = Len(call.requested_columns)
         /\ \A k \in 1..Len(call.result) :
              /\ Len(call.result[k]) >= fail - 1
              /\ \A j \in 1..(fail - 1) :
                   call.result[k][j]
                     = ValueAt(log, file, call.requested_columns[k], wide[j]).val

\* a reader raised on a row that follows a retained row and precedes another
\* row wide enough to be read
C3_Witness ==
  /\ ReadReturned
  /\ call.failed_row > 1
  /\ call.failed_row < Len(file.rows)
  /\ (call.failed_row - 1) \in call.rows_read
  /\ Len(file.rows[Len(file.rows)]) >= call.n_input_cols_needed

(***************************************************************************)
(* C4: for a Garmin log, the 'elapsed' value returned by read() is None    *)
(* for every row that precedes the first row with a fully valid date, and  *)
(* is None for every row when no row has a complete date; in that case     *)
(* read() still returns one value per retained row.                        *)
(***************************************************************************)
\* the data row's 'Lcl Date' field parses as exactly three integers
HasDate(l, f, i) ==
  /\ Len(f.rows[i]) > l.column_idx.at["Lcl Date"]
  /\ Len(parse_int_tuple(f.rows[i][l.column_idx.at["Lcl Date"] + 1])) = 3

C4_GarminElapsedAbsent ==
  (ReadReturned /\ log.vendor = VENDOR_GARMIN) =>
    LET wide == WideRows(file, MinWidth(log, call.requested_columns))
        dated == {i \in 1..Len(file.rows) : HasDate(log, file, i)}
    IN \A k \in 1..Len(call.requested_columns) :
         call.requested_columns[k] = COLUMN_NAME_ELAPSED =>
           /\ \A j \in 1..Len(wide) :
                (\A i \in dated : wide[j] < i) =>
                  /\ j <= Len(call.result[k])
                  /\ call.result[k][j] = None
           /\ dated = {} =>
                /\ call.failed_row = 0
                /\ Len(call.result[k]) = Len(wide)

\* 'elapsed' is None on a row without a date and an integer on the dated
\* row that follows it
C4_Witness ==
  /\ ReadReturned
  /\ log.vendor = VENDOR_GARMIN
  /\ call.requested_columns = <<COLUMN_NAME_ELAPSED>>
  /\ Len(call.result[1]) = 2
  /\ call.result[1][1] = None
  /\ call.result[1][2].kind = "int"
  /\ ~HasDate(log, file, 1)
  /\ HasDate(log, file, 2)

(***************************************************************************)
(* C5: for an Avidyne log and a row whose TIME field parses as three       *)
(* integers H, M, S that form a time of day, the timestamp read() returns  *)
(* is the start date at H:M:S when that time of day is not earlier than    *)
(* the start time's, and the next day at H:M:S when it is earlier;         *)
(* 'elapsed' is that timestamp minus the start time in whole seconds       *)
(* (start 23:59:58 and TIME 00:00:02 give elapsed 4); as long as every    *)
(* row read so far holds a time of day, every row read yields a value.     *)
(***************************************************************************)
\* the TIME field of data row i as integers
TimeOf(l, f, i) == parse_int_tuple(f.rows[i][l.column_idx.at["TIME"] + 1])

IsTimeOfDay(t) ==
  Len(t) = 3 /\ t[1] \in 0..23 /\ t[2] \in 0..59 /\ t[3] \in 0..59

SecondOfDay(t) == t[1] * 3600 + t[2] * 60 + t[3]

C5_AvidyneDayWrap ==
  (ReadReturned /\ log.vendor = VENDOR_AVIDYNE) =>
    LET wide == WideRows(file, MinWidth(log, call.requested_columns))
        start == log.start_time
    IN /\ \A k \in 1..Len(call.requested_columns) :
         \A j \in 1..Len(wide) :
           LET t == TimeOf(log, file, wide[j])
               day == IF SecondOfDay(t) >= start.m THEN start.n
                      ELSE start.n + 1
           IN (IsTimeOfDay(t) /\ j <= Len(call.result[k])) =>
                /\ call.requested_columns[k] = COLUMN_NAME_TIMESTAMP =>
                     call.result[k][j] = DateTimeVal(day, SecondOfDay(t))
                /\ call.requested_columns[k] = COLUMN_NAME_ELAPSED =>
                     /\ call.result[k][j]
                          = IntVal((day - start.n) * 86400
                                     + SecondOfDay(t) - start.m)
                     /\ (start.m = 86398 /\ t = <<0, 0, 2>>) =>
                          call.result[k][j] = IntVal(4)
       /\ \A k \in 1..Len(call.requested_columns) :
            \A j \in 1..Len(wide) :
              (\A h \in 1..j : IsTimeOfDay(TimeOf(log, file, wide[h]))) =>
                j <= Len(call.result[k])

\* start 23:59:58, a later row at 00:00:02: the next day, elapsed 4
C5_Witness ==
  /\ ReadReturned
  /\ log.vendor = VENDOR_AVIDYNE
  /\ log.start_time.m = 86398
  /\ call.requested_columns = <<COLUMN_NAME_TIMESTAMP, COLUMN_NAME_ELAPSED>>
  /\ Len(call.result[2]) = 2
  /\ TimeOf(log, file, 2) = <<0, 0, 2>>
  /\ call.result[1][2] = DateTimeVal(log.start_time.n + 1, 2)
  /\ call.result[2][2] = IntVal(4)

(***************************************************************************)
(* C6: when the same column name appears at two positions of the list      *)
(* passed to one read() call, the two output sequences at those positions  *)
(* are identical, including when the read stops early on a failing reader. *)
(* (Refuted: see C1; the earlier position holds one more value.)           *)
(***************************************************************************)
C6_SameNameSameColumn ==
  ReadReturned =>
    \A i, j \in 1..Len(call.requested_columns) :
      call.requested_columns[i] = call.requested_columns[j] =>
        call.result[i] = call.result[j]

(***************************************************************************)
(* C7: read() fails with the column-not-found error if and only if some    *)
(* requested name is neither 'timestamp' nor 'elapsed' nor a key of the    *)
(* log's index; when it fails it does so before the stream is rewound or   *)
(* any data row is read, and it returns no partial result.                 *)
(* (Refuted as stated: on a Garmin log without 'Lcl Time' a request for    *)
(* 'timestamp' or 'elapsed' fails too.)                                    *)
(***************************************************************************)
\* some requested name is neither a computed column nor a key of the index
SomeNameUnknown(l, requested) ==
  \E k \in 1..Len(requested) :
    /\ requested[k] \notin VirtualNames
    /\ requested[k] \notin {l.column_idx.keys[i] : i \in 1..Len(l.column_idx.keys)}

\* a computed column is requested from a Garmin log without 'Lcl Time'
TimeColumnMissing(l, requested) ==
  /\ l.vendor = VENDOR_GARMIN
  /\ \A i \in 1..Len(l.column_idx.keys) : l.column_idx.keys[i] # "Lcl Time"
  /\ \E k \in 1..Len(requested) : requested[k] \in VirtualNames

C7_FailsIffNameUnknown ==
  pc = "read" =>
    ((call.exc # "") <=> SomeNameUnknown(log, call.requested_columns))

\* As amended: read() raises FlightLogException if and only if some
\* requested name is neither 'timestamp' nor 'elapsed' nor a key of the
\* index, or 'timestamp' or 'elapsed' is requested from a Garmin log whose
\* index has no 'Lcl Time'; when it raises, the stream is where it was, no
\* data row has been read and nothing is returned.
C7_FailsIffColumnMissing ==
  [][(pc = "opened" /\ pc' = "read") =>
       /\ (call'.exc # "") <=>
            (\/ SomeNameUnknown(log, call'.requested_columns)
             \/ TimeColumnMissing(log, call'.requested_columns))
       /\ (call'.exc # "") =>
            /\ call'.exc = "FlightLogException"
            /\ inf' = inf
            /\ ~call'.returned
            /\ call'.result = <<>>
            /\ call'.rows_read = {}
       /\ (call'.exc = "") => (call'.returned /\ inf'.pos >= 3)]_vars

\* read raised on a Garmin log without 'Lcl Time' though every requested
\* name is a computed column or a key of the index
C7_Witness ==
  /\ pc = "read"
  /\ call.exc = "FlightLogException"
  /\ ~SomeNameUnknown(log, call.requested_columns)
  /\ TimeColumnMissing(log, call.requested_columns)
  /\ Len(file.rows) > 0
  /\ inf.pos > 3

(***************************************************************************)
(* C8: opening any file whose first line matches a vendor signature and    *)
(* whose header row contains that vendor's required columns succeeds, and  *)
(* the resulting index contains exactly the trimmed header names of the    *)
(* header row, in file order, each mapped to its position in that row.     *)
(* (Refuted: start-time resolution can fail on such a file.)               *)
(***************************************************************************)
RequiredOf(vendor) ==
  IF vendor = VENDOR_AVIDYNE THEN {"TIME", "LAT", "E1", "MAP", "FF"}
  ELSE IF vendor = VENDOR_GARMIN
    THEN {"Lcl Date", "Latitude", "E1 FFlow", "AfcsOn"}
  ELSE {}

\* the trimmed names of the file's header row
HeaderNames(f) == {Strip(f.header[i]) : i \in 1..Len(f.header)}

HasRequired(f) ==
  /\ FileVendor(f) # ""
  /\ f.hasHeader
  /\ RequiredOf(FileVendor(f)) \subseteq HeaderNames(f)

C8_OpenSucceeds ==
  (pc # "start" /\ HasRequired(file)) =>
    /\ pc \in {"opened", "read"}
    /\ log.column_idx.keys = ColumnNames(file)
    /\ \A i \in 1..Len(file.header) :
         log.column_idx.at[Strip(file.header[i])] = i - 1

(***************************************************************************)
(* C9: FlightLog.open returns a log only when the first line matched a     *)
(* vendor signature and every required column of that vendor is in the     *)
(* index; a file matching no signature, or matching a signature but        *)
(* missing a required column, makes open fail with FlightLogException and  *)
(* no log is returned.                                                     *)
(***************************************************************************)
C9_RequiredColumns ==
  /\ pc \in {"opened", "read"} =>
       /\ FileVendor(file) # ""
       /\ log.vendor = FileVendor(file)
       /\ RequiredOf(log.vendor) \subseteq DOMAIN log.column_idx.at
       /\ open_exc = ""
  /\ (pc # "start" /\ ~HasRequired(file)) =>
       /\ pc = "open_failed"
       /\ open_exc = "FlightLogException"
       /\ log = NoLog

\* open failed on a file with a signature, a header row without one of the
\* required columns, and a first data row
C9_Witness ==
  /\ pc = "open_failed"
  /\ FileVendor(file) # ""
  /\ file.hasHeader
  /\ Len(file.rows) > 0
  /\ ~HasRequired(file)
  /\ open_exc = "FlightLogException"

(***************************************************************************)
(* C10: on every path where FlightLog.open fails, the stream it opened has *)
(* been closed by the time the failure reaches the caller; the stream      *)
(* stays open only when a log is returned.                                 *)
(* (Refuted: only the path where no signature matches closes the stream.)  *)
(***************************************************************************)
C10_ClosedOnFailure ==
  /\ pc = "open_failed" => inf.state = "closed"
  /\ inf.state = "open" => pc \in {"opened", "read"}

(***************************************************************************)
(* C11: Garmin start-time resolution scans the data rows in file order and *)
(* sets the start time from the first row whose 'Lcl Date' field parses as *)
(* exactly three integers, combined with the three integers of that row's  *)
(* 'Lcl Time' field; rows whose date field does not parse as exactly three *)
(* integers are passed over, and if no row has a complete date the start   *)
(* time is None and opening still succeeds.  (Refuted: compute_start_time  *)
(* reads fields 0 and 1 of each row whatever the header says, and asserts  *)
(* on a date of one or two integers instead of passing over it.)           *)
(***************************************************************************)
\* the 1-based position of name in the file's header row
HeaderPos(f, name) ==
  CHOOSE i \in 1..Len(f.header) : Strip(f.header[i]) = name

\* the integers of the field of data row i under the header name, <<>> when
\* the row is cut before it
FieldInts(f, name, i) ==
  IF Len(f.rows[i]) < HeaderPos(f, name) THEN <<>>
  ELSE parse_int_tuple(f.rows[i][HeaderPos(f, name)])

\* the data rows whose 'Lcl Date' field holds exactly three integers
CompleteDates(f) ==
  {i \in 1..Len(f.rows) : Len(FieldInts(f, "Lcl Date", i)) = 3}

\* the first of a non-empty set of row numbers
FirstOf(S) == CHOOSE i \in S : \A j \in S : i <= j

\* the datetime of the date and time fields of data row i
StampOfRow(f, i) ==
  MakeDateTime(FieldInts(f, "Lcl Date", i)[1], FieldInts(f, "Lcl Date", i)[2],
               FieldInts(f, "Lcl Date", i)[3], FieldInts(f, "Lcl Time", i)[1],
               FieldInts(f, "Lcl Time", i)[2], FieldInts(f, "Lcl Time", i)[3])

C11_GarminStartFromFirstDate ==
  (/\ pc # "start"
   /\ FileVendor(file) = VENDOR_GARMIN
   /\ HasRequired(file)
   /\ "Lcl Time" \in HeaderNames(file)) =>
    IF CompleteDates(file) = {}
      THEN pc \in {"opened", "read"} /\ log.start_time = None
      ELSE Len(FieldInts(file, "Lcl Time", FirstOf(CompleteDates(file)))) = 3 =>
             /\ pc \in {"opened", "read"}
             /\ Ok(log.start_time) = StampOfRow(file, FirstOf(CompleteDates(file)))

(***************************************************************************)
(* C12: for an Avidyne log, the start time is the month/day/year parsed    *)
(* from line 2 combined with the hour:minute:second parsed from the TIME   *)
(* field of the first data row, wherever the TIME column is positioned in  *)
(* the header row.  (Refuted: compute_start_time parses the first field of *)
(* the first data row, whichever column it belongs to.)                    *)
(***************************************************************************)
\* the integers of line 2: month, day, year, hour, minute, second
Line2Ints(f) == parse_int_tuple(Strip(f.line2))

\* the two-digit year rule
StartYear(y) == IF y >= 70 THEN 1900 + y ELSE 2000 + y

\* the date of line 2 at the time of the first data row's TIME field
DateAtFirstTime(f) ==
  MakeDateTime(StartYear(Line2Ints(f)[3]), Line2Ints(f)[1], Line2Ints(f)[2],
               FieldInts(f, "TIME", 1)[1], FieldInts(f, "TIME", 1)[2],
               FieldInts(f, "TIME", 1)[3])

\* an Avidyne file with the required columns, six integers on line 2 and a
\* first data row
AvidyneWithDate(f) ==
  /\ FileVendor(f) = VENDOR_AVIDYNE
  /\ HasRequired(f)
  /\ Len(f.rows) > 0
  /\ Len(Line2Ints(f)) = 6

C12_AvidyneStartFromTimeColumn ==
  (/\ pc # "start"
   /\ AvidyneWithDate(file)
   /\ Line2Ints(file)[3] <= 99
   /\ Len(FieldInts(file, "TIME", 1)) = 3) =>
    (DateAtFirstTime(file).exc = "" =>
       /\ pc \in {"opened", "read"}
       /\ log.start_time = DateAtFirstTime(file).val)

(***************************************************************************)
(* C13: Avidyne two-digit year rule: for the year integer y of line 2,     *)
(* y >= 70 gives start year 1900 + y and y < 70 gives start year 2000 + y; *)
(* a year above 99 makes opening fail with FlightLogException instead of   *)
(* producing a start time, so every Avidyne start year lies in 1970..2069. *)
(***************************************************************************)
C13_TwoDigitYear ==
  (pc # "start" /\ AvidyneWithDate(file)) =>
    /\ Line2Ints(file)[3] > 99 =>
         pc = "open_failed" /\ open_exc = "FlightLogException"
    /\ pc \in {"opened", "read"} =>
         /\ log.start_time.kind = "datetime"
         /\ log.start_time.n =
              Ordinal(StartYear(Line2Ints(file)[3]), Line2Ints(file)[1],
                      Line2Ints(file)[2])
         /\ log.start_time.n >= Ordinal(1970, 1, 1)
         /\ log.start_time.n <= Ordinal(2069, 12, 31)

\* a log opened with year 70 on line 2 starts in 1970
C13_Witness ==
  /\ pc = "opened"
  /\ AvidyneWithDate(file)
  /\ Line2Ints(file)[3] = 70
  /\ log.start_time.n = Ordinal(1970, 1, 10)

(***************************************************************************)
(* C14: when read() stops on a failing reader, the line number it logs is  *)
(* the 1-based line number in the file of the row on which the reader      *)
(* failed, for any number of narrower-than-minimum rows dropped earlier in *)
(* the same read.  (Refuted: line_no is not advanced on a dropped row.)    *)
(***************************************************************************)
\* the 1-based line number in the file of data row i, after the three
\* header lines
LineOfRow(i) == 3 + i

C14_LoggedLineIsFileLine ==
  (ReadReturned /\ call.failed_row # 0) =>
    call.logged_line = LineOfRow(call.failed_row)

(***************************************************************************)
(* C15: for any sequence of read() calls on one opened log (including      *)
(* calls that raised for a missing column or stopped early), each call     *)
(* rewinds the stream, skips three lines and scans from the first data     *)
(* row, so its result depends only on the file and the requested names and *)
(* not on where open() or an earlier read() left the stream; two calls     *)
(* with the same request list return equal results, and the log's columns, *)
(* index and start time are unchanged by read().                           *)
(***************************************************************************)
\* the rows a read of requested scans when it starts at the first data row:
\* the rows of minimum width up to the first on which a reader raises
RowsScanned(l, f, requested) ==
  LET wide == WideRows(f, MinWidth(l, requested))
      fail == FirstFailure(l, f, requested, wide)
  IN {wide[j] : j \in 1..(IF fail = 0 THEN Len(wide) ELSE fail)}

\* what read returned or raised
Outcome(c) == <<c.exc, c.returned, c.result>>

C15_ReadRewinds ==
  [][pc' = "read" =>
       /\ log' = log
       /\ file' = file
       /\ Outcome(call') =
            Outcome(FlightLogRead(log, file, 0, call'.requested_columns))
       /\ call'.exc = "" =>
            /\ call'.rows_read =
                 RowsScanned(log, file, call'.requested_columns)
            /\ inf'.pos >= 3
       /\ (pc = "read" /\ call'.requested_columns = call.requested_columns) =>
            Outcome(call') = Outcome(call)]_vars

\* a read that stopped on the first of two rows, made again from where the
\* first call left the stream, in the middle of the file, with the same
\* result
C15_Witness ==
  /\ pc = "read"
  /\ prev.returned
  /\ prev.failed_row = 1
  /\ prev.pos < NumLines(file)
  /\ call.requested_columns = prev.requested_columns
  /\ call.result = prev.result
  /\ call.rows_read = {1}

(***************************************************************************)
(* C16: every way FlightLog.open can fail on a file's contents is raised   *)
(* as FlightLogException, the only exception the driver catches per file;  *)
(* this includes an Avidyne line 2 that does not hold six integers, an     *)
(* Avidyne first data row whose time field does not hold three integers,   *)
(* and a Garmin row whose date or time field holds some but not three      *)
(* integers.  (Refuted: these are assert statements, and raise             *)
(* AssertionError.)                                                        *)
(***************************************************************************)
C16_OpenRaisesFlightLogException ==
  pc = "open_failed" => open_exc = "FlightLogException"

(***************************************************************************)
(* C17: for an Avidyne log, every 'timestamp' value read() produces that   *)
(* is not None is not earlier than the log's start time and less than one  *)
(* day after it, so every 'elapsed' value that is not None is an integer   *)
(* in 0..86399, whatever the order of the TIME values in the file.         *)
(***************************************************************************)
\* the whole seconds from the start time of log l to datetime v
SecondsAfterStart(l, v) ==
  (v.n - l.start_time.n) * 86400 + (v.m - l.start_time.m)

C17_WithinOneDayOfStart ==
  (ReadReturned /\ log.vendor = VENDOR_AVIDYNE) =>
    \A k \in 1..Len(call.requested_columns) :
      \A j \in 1..Len(call.result[k]) :
        /\ call.requested_columns[k] = COLUMN_NAME_TIMESTAMP =>
             \/ call.result[k][j] = None
             \/ /\ call.result[k][j].kind = "datetime"
                /\ SecondsAfterStart(log, call.result[k][j]) \in 0..86399
        /\ call.requested_columns[k] = COLUMN_NAME_ELAPSED =>
             \/ call.result[k][j] = None
             \/ /\ call.result[k][j].kind = "int"
                /\ call.result[k][j].n \in 0..86399

\* TIME values out of order: the start at 23:59:58, a row past midnight,
\* then a row at 23:59:58 again
C17_Witness ==
  /\ ReadReturned
  /\ log.vendor = VENDOR_AVIDYNE
  /\ log.start_time.m = 86398
  /\ call.requested_columns = <<COLUMN_NAME_ELAPSED, COLUMN_NAME_TIMESTAMP>>
  /\ call.result[1] = <<IntVal(0), IntVal(4), IntVal(0)>>
  /\ call.result[2][2] = DateTimeVal(log.start_time.n + 1, 2)
  /\ call.result[2][3] = log.start_time
====
